---- MODULE Spec2Model ----
(***************************************************************************)
(* Model of packages/core/src/vmath.ts: the Vector3, Vector4, Quaternion   *)
(* and Matrix4 wrappers over host backing data, their typed operators and  *)
(* the dispatched add, sub, neg, mul and div.                              *)
(*                                                                         *)
(* A script holds wrapper objects (objs) whose data field refers to host   *)
(* backing data (heap).  Every call is recorded in last together with the  *)
(* heap before and after it.                                               *)
(***************************************************************************)
EXTENDS Integers, Sequences, FiniteSets, TLC

VARIABLES objs, heap, last, host, dflt, sets, self, go

vars == <<objs, heap, last, host, dflt, sets, self, go>>

(* The number of wrapper objects a script keeps alive. *)
MaxObjs == 2

(* The number of field assignments a script makes. *)
MaxSets == 1

(* The number of frames the engine runs the script for. *)
MaxFrames == 2

----------------------------------------------------------------------------
(* float64 numbers.  A number is <<n, d>>: the rational n/d in lowest      *)
(* terms with d > 0, or <<1,0>> = Infinity, <<-1,0>> = -Infinity,          *)
(* <<0,0>> = NaN.  The inputs are integers and halves, on which float64    *)
(* arithmetic is exact.  NaN is one value (equality below is same-value).  *)

Abs(n) == IF n < 0 THEN -n ELSE n

Sign(n) == IF n < 0 THEN -1 ELSE IF n > 0 THEN 1 ELSE 0

RECURSIVE GCD(_, _)
GCD(a, b) == IF b = 0 THEN a ELSE GCD(b, a % b)

Norm(n, d) ==
  IF d = 0 THEN <<Sign(n), 0>>
  ELSE LET g == GCD(Abs(n), Abs(d))
       IN  <<(Sign(d) * n) \div g, Abs(d) \div g>>

Num(n) == <<n, 1>>

Inf == <<1, 0>>

NaN == <<0, 0>>

IsFinite(a) == a[2] # 0

(* a + b *)
NumAdd(a, b) ==
  IF a = NaN \/ b = NaN THEN NaN
  ELSE IF a[2] = 0 /\ b[2] = 0 THEN (IF a = b THEN a ELSE NaN)
  ELSE IF a[2] = 0 THEN a
  ELSE IF b[2] = 0 THEN b
  ELSE Norm(a[1] * b[2] + b[1] * a[2], a[2] * b[2])

(* -a *)
NumNeg(a) == <<-a[1], a[2]>>

(* a - b *)
NumSub(a, b) == NumAdd(a, NumNeg(b))

(* a * b *)
NumMul(a, b) ==
  IF a = NaN \/ b = NaN THEN NaN
  ELSE Norm(a[1] * b[1], a[2] * b[2])

(* 1 / a *)
NumRecip(a) ==
  IF a = NaN THEN NaN
  ELSE IF a[1] = 0 THEN Inf
  ELSE IF a[2] = 0 THEN Num(0)
  ELSE Norm(a[2], a[1])

----------------------------------------------------------------------------
(* Script values. *)

Undef == [t |-> "undef"]

NumV(q) == [t |-> "num", q |-> q]

StrV(s) == [t |-> "str", s |-> s]

DataV(r) == [t |-> "data", ref |-> r]

Obj(cls, data) == [t |-> "obj", cls |-> cls, data |-> data]

Err(type, msg) == [t |-> "err", type |-> type, msg |-> msg]

IsNum(v) == v.t = "num"

InstanceOf(v, cls) == v.t = "obj" /\ v.cls = cls

(* A step of evaluation: the heap it leaves and the value or error. *)
Res(h, out) == [h |-> h, out |-> out]

IsErr(r) == r.out.t = "err"

Then(r, F(_, _)) == IF IsErr(r) THEN r ELSE F(r.h, r.out)

Alloc(h, d) == Res(Append(h, d), DataV(Len(h) + 1))

----------------------------------------------------------------------------
(* Errors.  A message is the sequence of its words. *)

TypeError(msg) == Err("TypeError", msg)

(* Reading or writing a property of undefined. *)
UndefinedAccess == TypeError(<<"undefined", "has", "no", "properties">>)

(* The host primitive refuses its arguments. *)
HostError == Err("Error", <<"host", "rejected", "argument">>)

----------------------------------------------------------------------------
(* Host primitives.  The host owns the backing data; host.wrapper is what  *)
(* it does with a wrapper object where backing data is expected, and       *)
(* host.layout is how its scalar fields m<i><j> address the columns: both  *)
(* are fixed by the host and unknown to the library.                       *)

HostModes == [wrapper : {"reject", "coerce"}, layout : {"rowcol", "colrow"}]

Zero3 == <<Num(0), Num(0), Num(0)>>

Zero4 == <<Num(0), Num(0), Num(0), Num(0)>>

IdentityQuat == <<Num(0), Num(0), Num(0), Num(1)>>

IdentityCols ==
  << <<Num(1), Num(0), Num(0), Num(0)>>, <<Num(0), Num(1), Num(0), Num(0)>>,
     <<Num(0), Num(0), Num(1), Num(0)>>, <<Num(0), Num(0), Num(0), Num(1)>> >>

(* What the host makes of a wrapper handed to it in place of data. *)
HostCopy(h, kind, x) ==
  IF host.wrapper = "coerce" /\ x.data.t = "data" /\ h[x.data.ref].k = kind
  THEN Alloc(h, h[x.data.ref])
  ELSE Res(h, HostError)

vmath_vector3(h, x, y, z) ==
  IF x.t = "undef" THEN Alloc(h, [k |-> "vector3", c |-> Zero3])
  ELSE IF x.t = "num" /\ y.t = "undef"
    THEN Alloc(h, [k |-> "vector3", c |-> <<x.q, x.q, x.q>>])
  ELSE IF x.t = "num" /\ y.t = "num" /\ z.t = "num"
    THEN Alloc(h, [k |-> "vector3", c |-> <<x.q, y.q, z.q>>])
  ELSE IF x.t = "obj" THEN HostCopy(h, "vector3", x)
  ELSE Res(h, HostError)

vmath_vector4(h, x, y, z, w) ==
  IF x.t = "undef" THEN Alloc(h, [k |-> "vector4", c |-> Zero4])
  ELSE IF x.t = "num" /\ y.t = "undef"
    THEN Alloc(h, [k |-> "vector4", c |-> <<x.q, x.q, x.q, x.q>>])
  ELSE IF x.t = "num" /\ y.t = "num" /\ z.t = "num" /\ w.t = "num"
    THEN Alloc(h, [k |-> "vector4", c |-> <<x.q, y.q, z.q, w.q>>])
  ELSE IF x.t = "obj" THEN HostCopy(h, "vector4", x)
  ELSE Res(h, HostError)

vmath_quat(h, x, y, z, w) ==
  IF x.t = "undef" THEN Alloc(h, [k |-> "quat", c |-> IdentityQuat])
  ELSE IF x.t = "num" /\ y.t = "num" /\ z.t = "num" /\ w.t = "num"
    THEN Alloc(h, [k |-> "quat", c |-> <<x.q, y.q, z.q, w.q>>])
  ELSE IF x.t = "obj" THEN HostCopy(h, "quat", x)
  ELSE Res(h, HostError)

vmath_matrix4(h, x) ==
  IF x.t = "undef" THEN Alloc(h, [k |-> "matrix4", c |-> IdentityCols])
  ELSE IF x.t = "obj" THEN HostCopy(h, "matrix4", x)
  ELSE Res(h, HostError)

(* The scalar field m<i><j> of matrix data d. *)
HostElem(d, i, j) ==
  IF host.layout = "rowcol" THEN d.c[j + 1][i + 1] ELSE d.c[i + 1][j + 1]

(* Reading column i of matrix data gives a vector4 datum of its own. *)
HostGetCol(h, r, i) == Alloc(h, [k |-> "vector4", c |-> h[r].c[i + 1]])

(* Assigning v to column i of matrix data r. *)
HostSetCol(h, r, i, v) ==
  IF v.t = "data" /\ h[v.ref].k = "vector4"
  THEN Res([h EXCEPT ![r].c[i + 1] = h[v.ref].c], Undef)
  ELSE IF /\ v.t = "obj" /\ host.wrapper = "coerce"
          /\ v.data.t = "data" /\ h[v.data.ref].k = "vector4"
  THEN Res([h EXCEPT ![r].c[i + 1] = h[v.data.ref].c], Undef)
  ELSE Res(h, HostError)

----------------------------------------------------------------------------
(* Component getters of Vector3, Vector4 and Quaternion: this.data.x *)

get_x(h, o) == h[o.data.ref].c[1]

get_y(h, o) == h[o.data.ref].c[2]

get_z(h, o) == h[o.data.ref].c[3]

get_w(h, o) == h[o.data.ref].c[4]

(* Component setters of Vector3, Vector4 and Quaternion: this.data.x = x *)

set_x(h, o, n) == Res([h EXCEPT ![o.data.ref].c[1] = n.q], Undef)

set_y(h, o, n) == Res([h EXCEPT ![o.data.ref].c[2] = n.q], Undef)

set_z(h, o, n) == Res([h EXCEPT ![o.data.ref].c[3] = n.q], Undef)

set_w(h, o, n) == Res([h EXCEPT ![o.data.ref].c[4] = n.q], Undef)

----------------------------------------------------------------------------
(* Vector3 *)

(* A constructor that hands whatever it is given to the host. *)
Vector3_constructor_host(h, x, y, z) ==
  Then(vmath_vector3(h, x, y, z), LAMBDA h1, d : Res(h1, Obj("Vector3", d)))

Vector3_constructor(h, x, y, z) ==
  IF x.t = "undef" \/ x.t = "num" \/ InstanceOf(x, "Vector3")
  THEN Then(vmath_vector3(h, x, y, z), LAMBDA h1, d : Res(h1, Obj("Vector3", d)))
  ELSE Res(h, Obj("Vector3", x))

(* Vector3.add that accumulates into its first operand. *)
Vector3_add_inplace(h, v1, v2) ==
  Res([h EXCEPT ![v1.data.ref].c = <<NumAdd(get_x(h, v1), get_x(h, v2)),
                                     NumAdd(get_y(h, v1), get_y(h, v2)),
                                     NumAdd(get_z(h, v1), get_z(h, v2))>>], v1)

Vector3_add(h, v1, v2) ==
  Vector3_constructor(h, NumV(NumAdd(get_x(h, v1), get_x(h, v2))),
                         NumV(NumAdd(get_y(h, v1), get_y(h, v2))),
                         NumV(NumAdd(get_z(h, v1), get_z(h, v2))))

Vector3_sub(h, v1, v2) ==
  Vector3_constructor(h, NumV(NumSub(get_x(h, v1), get_x(h, v2))),
                         NumV(NumSub(get_y(h, v1), get_y(h, v2))),
                         NumV(NumSub(get_z(h, v1), get_z(h, v2))))

Vector3_neg(h, v1) ==
  Vector3_constructor(h, NumV(NumNeg(get_x(h, v1))),
                         NumV(NumNeg(get_y(h, v1))),
                         NumV(NumNeg(get_z(h, v1))))

Vector3_mul(h, v1, n) ==
  Vector3_constructor(h, NumV(NumMul(get_x(h, v1), n.q)),
                         NumV(NumMul(get_y(h, v1), n.q)),
                         NumV(NumMul(get_z(h, v1), n.q)))

(* div that refuses a zero divisor. *)
Vector3_div_checked(h, v1, n) ==
  IF n.q = Num(0) THEN Res(h, Err("RangeError", <<"division", "by", "zero">>))
  ELSE Vector3_mul(h, v1, NumV(NumRecip(n.q)))

Vector3_div(h, v1, n) == Vector3_mul(h, v1, NumV(NumRecip(n.q)))

----------------------------------------------------------------------------
(* Vector4 *)

Vector4_constructor(h, x, y, z, w) ==
  IF x.t = "undef" \/ x.t = "num" \/ InstanceOf(x, "Vector4")
  THEN Then(vmath_vector4(h, x, y, z, w), LAMBDA h1, d : Res(h1, Obj("Vector4", d)))
  ELSE Res(h, Obj("Vector4", x))

Vector4_add(h, v1, v2) ==
  Vector4_constructor(h, NumV(NumAdd(get_x(h, v1), get_x(h, v2))),
                         NumV(NumAdd(get_y(h, v1), get_y(h, v2))),
                         NumV(NumAdd(get_z(h, v1), get_z(h, v2))),
                         NumV(NumAdd(get_w(h, v1), get_w(h, v2))))

(* sub with the operands exchanged. *)
Vector4_sub_reversed(h, v1, v2) ==
  Vector4_constructor(h, NumV(NumSub(get_x(h, v2), get_x(h, v1))),
                         NumV(NumSub(get_y(h, v2), get_y(h, v1))),
                         NumV(NumSub(get_z(h, v2), get_z(h, v1))),
                         NumV(NumSub(get_w(h, v2), get_w(h, v1))))

Vector4_sub(h, v1, v2) ==
  Vector4_constructor(h, NumV(NumSub(get_x(h, v1), get_x(h, v2))),
                         NumV(NumSub(get_y(h, v1), get_y(h, v2))),
                         NumV(NumSub(get_z(h, v1), get_z(h, v2))),
                         NumV(NumSub(get_w(h, v1), get_w(h, v2))))

Vector4_neg(h, v1) ==
  Vector4_constructor(h, NumV(NumNeg(get_x(h, v1))),
                         NumV(NumNeg(get_y(h, v1))),
                         NumV(NumNeg(get_z(h, v1))),
                         NumV(NumNeg(get_w(h, v1))))

Vector4_mul(h, v1, n) ==
  Vector4_constructor(h, NumV(NumMul(get_x(h, v1), n.q)),
                         NumV(NumMul(get_y(h, v1), n.q)),
                         NumV(NumMul(get_z(h, v1), n.q)),
                         NumV(NumMul(get_w(h, v1), n.q)))

Vector4_div(h, v1, n) == Vector4_mul(h, v1, NumV(NumRecip(n.q)))

----------------------------------------------------------------------------
(* Quaternion *)

Quaternion_constructor(h, x, y, z, w) ==
  IF x.t = "undef" \/ x.t = "num" \/ InstanceOf(x, "Quaternion")
  THEN Then(vmath_quat(h, x, y, z, w), LAMBDA h1, d : Res(h1, Obj("Quaternion", d)))
  ELSE Res(h, Obj("Quaternion", x))

(* Hamilton product with the x1 * w2 term subtracted. *)
Quaternion_mul_sign(h, q1, q2) ==
  LET x1 == get_x(h, q1)  y1 == get_y(h, q1)  z1 == get_z(h, q1)  w1 == get_w(h, q1)
      x2 == get_x(h, q2)  y2 == get_y(h, q2)  z2 == get_z(h, q2)  w2 == get_w(h, q2)
  IN Quaternion_constructor(h,
       NumV(NumSub(NumAdd(NumSub(NumMul(w1, x2), NumMul(x1, w2)), NumMul(y1, z2)), NumMul(z1, y2))),
       NumV(NumSub(NumAdd(NumAdd(NumMul(w1, y2), NumMul(y1, w2)), NumMul(z1, x2)), NumMul(x1, z2))),
       NumV(NumSub(NumAdd(NumAdd(NumMul(w1, z2), NumMul(z1, w2)), NumMul(x1, y2)), NumMul(y1, x2))),
       NumV(NumSub(NumSub(NumSub(NumMul(w1, w2), NumMul(x1, x2)), NumMul(y1, y2)), NumMul(z1, z2))))

(* Hamilton product with the cross terms of z exchanged. *)
Quaternion_mul_cross(h, q1, q2) ==
  LET x1 == get_x(h, q1)  y1 == get_y(h, q1)  z1 == get_z(h, q1)  w1 == get_w(h, q1)
      x2 == get_x(h, q2)  y2 == get_y(h, q2)  z2 == get_z(h, q2)  w2 == get_w(h, q2)
  IN Quaternion_constructor(h,
       NumV(NumSub(NumAdd(NumAdd(NumMul(w1, x2), NumMul(x1, w2)), NumMul(y1, z2)), NumMul(z1, y2))),
       NumV(NumSub(NumAdd(NumAdd(NumMul(w1, y2), NumMul(y1, w2)), NumMul(z1, x2)), NumMul(x1, z2))),
       NumV(NumSub(NumAdd(NumAdd(NumMul(w1, z2), NumMul(z1, w2)), NumMul(y1, x2)), NumMul(x1, y2))),
       NumV(NumSub(NumSub(NumSub(NumMul(w1, w2), NumMul(x1, x2)), NumMul(y1, y2)), NumMul(z1, z2))))

(* Hamilton product with the x1 * x2 term of w added. *)
Quaternion_mul_scalar(h, q1, q2) ==
  LET x1 == get_x(h, q1)  y1 == get_y(h, q1)  z1 == get_z(h, q1)  w1 == get_w(h, q1)
      x2 == get_x(h, q2)  y2 == get_y(h, q2)  z2 == get_z(h, q2)  w2 == get_w(h, q2)
  IN Quaternion_constructor(h,
       NumV(NumSub(NumAdd(NumAdd(NumMul(w1, x2), NumMul(x1, w2)), NumMul(y1, z2)), NumMul(z1, y2))),
       NumV(NumSub(NumAdd(NumAdd(NumMul(w1, y2), NumMul(y1, w2)), NumMul(z1, x2)), NumMul(x1, z2))),
       NumV(NumSub(NumAdd(NumAdd(NumMul(w1, z2), NumMul(z1, w2)), NumMul(x1, y2)), NumMul(y1, x2))),
       NumV(NumSub(NumSub(NumAdd(NumMul(w1, w2), NumMul(x1, x2)), NumMul(y1, y2)), NumMul(z1, z2))))

Quaternion_mul(h, q1, q2) ==
  LET x1 == get_x(h, q1)  y1 == get_y(h, q1)  z1 == get_z(h, q1)  w1 == get_w(h, q1)
      x2 == get_x(h, q2)  y2 == get_y(h, q2)  z2 == get_z(h, q2)  w2 == get_w(h, q2)
  IN Quaternion_constructor(h,
       NumV(NumSub(NumAdd(NumAdd(NumMul(w1, x2), NumMul(x1, w2)), NumMul(y1, z2)), NumMul(z1, y2))),
       NumV(NumSub(NumAdd(NumAdd(NumMul(w1, y2), NumMul(y1, w2)), NumMul(z1, x2)), NumMul(x1, z2))),
       NumV(NumSub(NumAdd(NumAdd(NumMul(w1, z2), NumMul(z1, w2)), NumMul(x1, y2)), NumMul(y1, x2))),
       NumV(NumSub(NumSub(NumSub(NumMul(w1, w2), NumMul(x1, x2)), NumMul(y1, y2)), NumMul(z1, z2))))

----------------------------------------------------------------------------
(* Matrix4 *)

(* get c<i>(): new Vector4(this.data.c<i>) *)
Matrix4_get_c(h, m, i) ==
  IF m.data.t = "undef" THEN Res(h, UndefinedAccess)
  ELSE Then(HostGetCol(h, m.data.ref, i),
            LAMBDA h1, d : Vector4_constructor(h1, d, Undef, Undef, Undef))

(* set c<i>(v): this.data.c<i> = v *)
Matrix4_set_c(h, m, i, v) ==
  IF m.data.t = "undef" THEN Res(h, UndefinedAccess)
  ELSE HostSetCol(h, m.data.ref, i, v)

Matrix4_constructor(h, x, y, z, w) ==
  IF InstanceOf(x, "Matrix4")
  THEN Then(vmath_matrix4(h, x), LAMBDA h1, d : Res(h1, Obj("Matrix4", d)))
  ELSE IF InstanceOf(x, "Vector4")
  THEN Then(vmath_matrix4(h, Undef), LAMBDA h1, d :
         Then(Matrix4_set_c(h1, Obj("Matrix4", d), 0, x), LAMBDA h2, u2 :
           Then(Matrix4_set_c(h2, Obj("Matrix4", d), 1, y), LAMBDA h3, u3 :
             Then(Matrix4_set_c(h3, Obj("Matrix4", d), 2, z), LAMBDA h4, u4 :
               Then(Matrix4_set_c(h4, Obj("Matrix4", d), 3, w), LAMBDA h5, u5 :
                 Res(h5, Obj("Matrix4", d)))))))
  ELSE Res(h, Obj("Matrix4", x))

(* Matrix4.mul(m1, v), the Vector4 branch *)
Matrix4_mul_vector(h, m1, xn) ==
  IF m1.data.t = "undef" THEN Res(h, UndefinedAccess)
  ELSE LET d == h[m1.data.ref]
           x == get_x(h, xn)  y == get_y(h, xn)  z == get_z(h, xn)  w == get_w(h, xn)
           Row(j) == NumAdd(NumAdd(NumAdd(NumMul(HostElem(d, 0, j), x), NumMul(HostElem(d, 1, j), y)),
                                    NumMul(HostElem(d, 2, j), z)), NumMul(HostElem(d, 3, j), w))
       IN Vector4_constructor(h, NumV(Row(0)), NumV(Row(1)), NumV(Row(2)), NumV(Row(3)))

(* Matrix4.mul(m1, m2), the Matrix4 branch *)
Matrix4_mul_matrix(h, m1, xn) ==
  LET Col(g, i) == Then(Matrix4_get_c(g, xn, i), LAMBDA g1, c : Matrix4_mul_vector(g1, m1, c))
  IN Then(Col(h, 0), LAMBDA h1, a :
       Then(Col(h1, 1), LAMBDA h2, b :
         Then(Col(h2, 2), LAMBDA h3, c :
           Then(Col(h3, 3), LAMBDA h4, d :
             Matrix4_constructor(h4, a, b, c, d)))))

(* Matrix4.mul(m1, n), the number branch *)
Matrix4_mul_number(h, m1, xn) ==
  LET Col(g, i) == Then(Matrix4_get_c(g, m1, i), LAMBDA g1, c : Vector4_mul(g1, c, xn))
  IN Then(Col(h, 0), LAMBDA h1, a :
       Then(Col(h1, 1), LAMBDA h2, b :
         Then(Col(h2, 2), LAMBDA h3, c :
           Then(Col(h3, 3), LAMBDA h4, d :
             Matrix4_constructor(h4, a, b, c, d)))))

Matrix4_mul(h, m1, xn) ==
  IF InstanceOf(xn, "Matrix4") THEN Matrix4_mul_matrix(h, m1, xn)
  ELSE IF InstanceOf(xn, "Vector4") THEN Matrix4_mul_vector(h, m1, xn)
  ELSE Matrix4_mul_number(h, m1, xn)

----------------------------------------------------------------------------
(* The dispatched operators. *)

(* add that takes the first three components of a Vector4. *)
add_truncating(h, a, b) ==
  IF InstanceOf(a, "Vector3")
  THEN IF InstanceOf(b, "Vector3") \/ InstanceOf(b, "Vector4") THEN Vector3_add(h, a, b)
       ELSE Res(h, TypeError(<<"Vector3", "should", "add", "Vector3">>))
  ELSE IF InstanceOf(a, "Vector4")
  THEN IF InstanceOf(b, "Vector4") THEN Vector4_add(h, a, b)
       ELSE Res(h, TypeError(<<"Vector4", "should", "add", "Vector4">>))
  ELSE Res(h, TypeError(<<"not", "supported">>))

add(h, a, b) ==
  IF InstanceOf(a, "Vector3")
  THEN IF InstanceOf(b, "Vector3") THEN Vector3_add(h, a, b)
       ELSE Res(h, TypeError(<<"Vector3", "should", "add", "Vector3">>))
  ELSE IF InstanceOf(a, "Vector4")
  THEN IF InstanceOf(b, "Vector4") THEN Vector4_add(h, a, b)
       ELSE Res(h, TypeError(<<"Vector4", "should", "add", "Vector4">>))
  ELSE Res(h, TypeError(<<"not", "supported">>))

sub(h, a, b) ==
  IF InstanceOf(a, "Vector3")
  THEN IF InstanceOf(b, "Vector3") THEN Vector3_sub(h, a, b)
       ELSE Res(h, TypeError(<<"Vector3", "should", "subtract", "Vector3">>))
  ELSE IF InstanceOf(a, "Vector4")
  THEN IF InstanceOf(b, "Vector4") THEN Vector4_sub(h, a, b)
       ELSE Res(h, TypeError(<<"Vector4", "should", "subtract", "Vector4">>))
  ELSE Res(h, TypeError(<<"not", "supported">>))

(* neg that also negates a Quaternion. *)
neg_quaternion(h, a) ==
  IF InstanceOf(a, "Vector3") THEN Vector3_neg(h, a)
  ELSE IF InstanceOf(a, "Vector4") \/ InstanceOf(a, "Quaternion") THEN Vector4_neg(h, a)
  ELSE Res(h, TypeError(<<"not", "supported">>))

neg(h, a) ==
  IF InstanceOf(a, "Vector3") THEN Vector3_neg(h, a)
  ELSE IF InstanceOf(a, "Vector4") THEN Vector4_neg(h, a)
  ELSE Res(h, TypeError(<<"not", "supported">>))

(* mul without the Vector4 * Matrix4 case. *)
mul_matrix_first_only(h, a, b) ==
  IF InstanceOf(a, "Vector3")
  THEN IF IsNum(b) THEN Vector3_mul(h, a, b)
       ELSE Res(h, TypeError(<<"Vector3", "should", "multiply", "number">>))
  ELSE IF InstanceOf(a, "Vector4")
  THEN IF IsNum(b) THEN Vector4_mul(h, a, b)
       ELSE Res(h, TypeError(<<"Vector4", "should", "multiply", "Matrix4", "or", "number">>))
  ELSE IF InstanceOf(a, "Matrix4")
  THEN IF InstanceOf(b, "Vector4") THEN Matrix4_mul(h, a, b)
       ELSE IF InstanceOf(b, "Matrix4") THEN Matrix4_mul(h, a, b)
       ELSE IF IsNum(b) THEN Matrix4_mul(h, a, b)
       ELSE Res(h, TypeError(<<"Matrix4", "should", "multiply", "Vector4", "Matrix4", "or", "number">>))
  ELSE IF IsNum(a)
  THEN IF InstanceOf(b, "Vector3") THEN Vector3_mul(h, b, a)
       ELSE IF InstanceOf(b, "Vector4") THEN Vector4_mul(h, b, a)
       ELSE IF InstanceOf(b, "Matrix4") THEN Matrix4_mul(h, b, a)
       ELSE Res(h, TypeError(<<"number", "should", "multiply", "Vector3", "Vector4", "or", "Matrix4">>))
  ELSE IF InstanceOf(a, "Quaternion")
  THEN IF InstanceOf(b, "Quaternion") THEN Quaternion_mul(h, a, b)
       ELSE Res(h, TypeError(<<"Quaternion", "should", "multiply", "Quaternion">>))
  ELSE Res(h, TypeError(<<"not", "supported">>))

(* mul without the number-first cases. *)
mul_number_last_only(h, a, b) ==
  IF InstanceOf(a, "Vector3")
  THEN IF IsNum(b) THEN Vector3_mul(h, a, b)
       ELSE Res(h, TypeError(<<"Vector3", "should", "multiply", "number">>))
  ELSE IF InstanceOf(a, "Vector4")
  THEN IF InstanceOf(b, "Matrix4") THEN Matrix4_mul(h, b, a)
       ELSE IF IsNum(b) THEN Vector4_mul(h, a, b)
       ELSE Res(h, TypeError(<<"Vector4", "should", "multiply", "Matrix4", "or", "number">>))
  ELSE IF InstanceOf(a, "Matrix4")
  THEN IF InstanceOf(b, "Vector4") THEN Matrix4_mul(h, a, b)
       ELSE IF InstanceOf(b, "Matrix4") THEN Matrix4_mul(h, a, b)
       ELSE IF IsNum(b) THEN Matrix4_mul(h, a, b)
       ELSE Res(h, TypeError(<<"Matrix4", "should", "multiply", "Vector4", "Matrix4", "or", "number">>))
  ELSE IF InstanceOf(a, "Quaternion")
  THEN IF InstanceOf(b, "Quaternion") THEN Quaternion_mul(h, a, b)
       ELSE Res(h, TypeError(<<"Quaternion", "should", "multiply", "Quaternion">>))
  ELSE Res(h, TypeError(<<"not", "supported">>))

mul(h, a, b) ==
  IF InstanceOf(a, "Vector3")
  THEN IF IsNum(b) THEN Vector3_mul(h, a, b)
       ELSE Res(h, TypeError(<<"Vector3", "should", "multiply", "number">>))
  ELSE IF InstanceOf(a, "Vector4")
  THEN IF InstanceOf(b, "Matrix4") THEN Matrix4_mul(h, b, a)
       ELSE IF IsNum(b) THEN Vector4_mul(h, a, b)
       ELSE Res(h, TypeError(<<"Vector4", "should", "multiply", "Matrix4", "or", "number">>))
  ELSE IF InstanceOf(a, "Matrix4")
  THEN IF InstanceOf(b, "Vector4") THEN Matrix4_mul(h, a, b)
       ELSE IF InstanceOf(b, "Matrix4") THEN Matrix4_mul(h, a, b)
       ELSE IF IsNum(b) THEN Matrix4_mul(h, a, b)
       ELSE Res(h, TypeError(<<"Matrix4", "should", "multiply", "Vector4", "Matrix4", "or", "number">>))
  ELSE IF IsNum(a)
  THEN IF InstanceOf(b, "Vector3") THEN Vector3_mul(h, b, a)
       ELSE IF InstanceOf(b, "Vector4") THEN Vector4_mul(h, b, a)
       ELSE IF InstanceOf(b, "Matrix4") THEN Matrix4_mul(h, b, a)
       ELSE Res(h, TypeError(<<"number", "should", "multiply", "Vector3", "Vector4", "or", "Matrix4">>))
  ELSE IF InstanceOf(a, "Quaternion")
  THEN IF InstanceOf(b, "Quaternion") THEN Quaternion_mul(h, a, b)
       ELSE Res(h, TypeError(<<"Quaternion", "should", "multiply", "Quaternion">>))
  ELSE Res(h, TypeError(<<"not", "supported">>))

div(h, a, b) ==
  IF InstanceOf(a, "Vector3")
  THEN IF IsNum(b) THEN Vector3_div(h, a, b)
       ELSE Res(h, TypeError(<<"Vector3", "should", "divide", "number">>))
  ELSE IF InstanceOf(a, "Vector4")
  THEN IF IsNum(b) THEN Vector4_div(h, a, b)
       ELSE Res(h, TypeError(<<"Vector4", "should", "divide", "number">>))
  ELSE Res(h, TypeError(<<"not", "supported">>))

----------------------------------------------------------------------------
(* Inputs of the scripts. *)

NumIn == {Num(2), Num(0)}

V3In == { <<Num(1), Num(-2), Num(3)>> }

V4In == { <<Num(1), Num(2), Num(3), Num(4)>>, <<Num(0), Num(-1), Num(2), Num(0)>> }

QIn == { <<Num(1), Num(-1), Num(2), Num(3)>>, <<Inf, Num(0), Num(0), Num(1)>> }

(* Matrices the host hands out, by columns. *)
MatIn ==
  { << <<Num(1), Num(2), Num(0), Num(0)>>, <<Num(0), Num(1), Num(3), Num(0)>>,
       <<Num(-1), Num(0), Num(1), Num(0)>>, <<Num(2), Num(-2), Num(1), Num(1)>> >> }

ObjsOf(cls) == {i \in 1..Len(objs) : objs[i].cls = cls}

(* Operands of a dispatched call: any wrapper, a number, or something else. *)
Operands == {objs[i] : i \in 1..Len(objs)} \cup {NumV(n) : n \in NumIn} \cup {Undef}

SplatArgs == {<<NumV(Num(2)), Undef, Undef, Undef>>}

FromObjs(cls) ==
  {<<objs[i], Undef, Undef, Undef>> : i \in ObjsOf(cls)}
    \cup {<<objs[i].data, Undef, Undef, Undef>> : i \in ObjsOf(cls)}

NoArgs == <<Undef, Undef, Undef, Undef>>

Vector3Args ==
  {NoArgs} \cup SplatArgs \cup FromObjs("Vector3")
    \cup {<<NumV(t[1]), NumV(t[2]), NumV(t[3]), Undef>> : t \in V3In}

Vector4Args ==
  {NoArgs} \cup FromObjs("Vector4")
    \cup {<<NumV(t[1]), NumV(t[2]), NumV(t[3]), NumV(t[4])>> : t \in V4In}

QuaternionArgs ==
  {NoArgs} \cup FromObjs("Quaternion")
    \cup {<<NumV(t[1]), NumV(t[2]), NumV(t[3]), NumV(t[4])>> : t \in QIn}

Matrix4Args ==
  {NoArgs} \cup FromObjs("Matrix4")
    \cup {<<objs[a], objs[b], objs[c], objs[d]>> : a, b, c, d \in ObjsOf("Vector4")}

----------------------------------------------------------------------------
(* The script: one call per step.  A call leaves the operands' data in the *)
(* heap, followed by the data of its result when that is newly allocated;  *)
(* the data of temporaries is unreachable after the call and is dropped.   *)

IsFresh(r) ==
  r.out.t = "obj" /\ r.out.data.t = "data" /\ r.out.data.ref > Len(heap)

Record(op, args, r) ==
  [op   |-> op,
   args |-> args,
   out  |-> IF IsFresh(r) THEN Obj(r.out.cls, DataV(Len(heap) + 1)) ELSE r.out,
   kept |-> FALSE,
   pre  |-> heap,
   post |-> IF IsFresh(r)
            THEN Append(SubSeq(r.h, 1, Len(heap)), r.h[r.out.data.ref])
            ELSE SubSeq(r.h, 1, Len(heap))]

(* var o = new C(...): the script keeps the object. *)
(* No script instance and no game object are attached. *)
NoSelf == [a |-> Undef, velocity |-> Undef, input |-> Undef]

NoGo == [position |-> Zero3, posted |-> {}, frames |-> 0]

Construct(op, args, r) ==
  LET rec == Record(op, args, r)
  IN /\ Len(objs) < MaxObjs
     /\ last' = [rec EXCEPT !.kept = (rec.out.t = "obj")]
     /\ host' = host
     /\ sets' = sets
     /\ UNCHANGED <<self, go>>
     /\ IF rec.out.t = "obj"
        THEN /\ objs' = Append(objs, rec.out)
             /\ heap' = rec.post
             /\ dflt' = IF args = NoArgs THEN dflt \cup {Len(objs) + 1} ELSE dflt
        ELSE /\ objs' = objs
             /\ heap' = SubSeq(rec.post, 1, Len(heap))
             /\ dflt' = dflt

(* f(...): the script looks at the result and drops it.  Calls are taken  *)
(* from the states a kept construction leaves; a call right after a call  *)
(* would start from the same objects and data.                            *)
Call(op, args, r) ==
  LET rec == Record(op, args, r)
  IN /\ last.kept
     /\ last' = rec
     /\ heap' = SubSeq(rec.post, 1, Len(heap))
     /\ UNCHANGED <<objs, host, dflt, sets, self, go>>

(* o.f = v: the assignment acts on the data of objs[args[1]]. *)
Assign(op, args, r) ==
  /\ sets < MaxSets
  /\ last' = [Record(op, args, r) EXCEPT !.kept = TRUE]
  /\ heap' = r.h
  /\ sets' = sets + 1
  /\ UNCHANGED <<objs, host, dflt, self, go>>

Init ==
  /\ objs = <<>>
  /\ heap = <<>>
  /\ last = [op |-> "none", args |-> <<>>, out |-> Undef, kept |-> TRUE,
             pre |-> <<>>, post |-> <<>>]
  /\ host \in HostModes
  /\ dflt = {}
  /\ sets = 0
  /\ self = NoSelf
  /\ go = NoGo

NewVector3 ==
  \E a \in Vector3Args :
    Construct("new Vector3", a, Vector3_constructor(heap, a[1], a[2], a[3]))

NewVector4 ==
  \E a \in Vector4Args :
    Construct("new Vector4", a, Vector4_constructor(heap, a[1], a[2], a[3], a[4]))

NewQuaternion ==
  \E a \in QuaternionArgs :
    Construct("new Quaternion", a, Quaternion_constructor(heap, a[1], a[2], a[3], a[4]))

NewMatrix4 ==
  \E a \in Matrix4Args :
    Construct("new Matrix4", a, Matrix4_constructor(heap, a[1], a[2], a[3], a[4]))

(* go.get_world_transform(): new Matrix4(lua.go.get_world_transform(1, id)) *)
get_world_transform ==
  \E m \in MatIn :
    Construct("go.get_world_transform", <<>>,
              Then(Alloc(heap, [k |-> "matrix4", c |-> m]),
                   LAMBDA h1, d : Matrix4_constructor(h1, d, Undef, Undef, Undef)))

----------------------------------------------------------------------------
(* lua/base.ts: error(message, level).  The host's error primitive either *)
(* raises or hands a value back; the library throws what it hands back.   *)

lua_error(h, message, level, hostRaises) ==
  IF hostRaises THEN Res(h, Err("LuaError", message.s)) ELSE Res(h, Undef)

(* error that returns what the host primitive returns. *)
error_returning(h, message, level, hostRaises) ==
  lua_error(h, message, level, hostRaises)

error(h, message, level, hostRaises) ==
  Then(lua_error(h, message, level, hostRaises),
       LAMBDA h1, v : Res(h1, Err("thrown", <<>>)))

ErrorIn == {StrV(<<"boom">>)}

LevelIn == {Undef, NumV(Num(2))}

CallError ==
  \E m \in ErrorIn, l \in LevelIn, hostRaises \in BOOLEAN :
    Call("error", <<m, l>>, error(heap, m, l, hostRaises))

CallVector3Add ==
  \E i, j \in ObjsOf("Vector3") :
    Call("Vector3.add", <<objs[i], objs[j]>>, Vector3_add(heap, objs[i], objs[j]))

CallVector3Sub ==
  \E i, j \in ObjsOf("Vector3") :
    Call("Vector3.sub", <<objs[i], objs[j]>>, Vector3_sub(heap, objs[i], objs[j]))

CallVector3Neg ==
  \E i \in ObjsOf("Vector3") :
    Call("Vector3.neg", <<objs[i]>>, Vector3_neg(heap, objs[i]))

CallVector3Mul ==
  \E i \in ObjsOf("Vector3"), n \in NumIn :
    Call("Vector3.mul", <<objs[i], NumV(n)>>, Vector3_mul(heap, objs[i], NumV(n)))

CallVector3Div ==
  \E i \in ObjsOf("Vector3"), n \in NumIn :
    Call("Vector3.div", <<objs[i], NumV(n)>>, Vector3_div(heap, objs[i], NumV(n)))

CallVector4Add ==
  \E i, j \in ObjsOf("Vector4") :
    Call("Vector4.add", <<objs[i], objs[j]>>, Vector4_add(heap, objs[i], objs[j]))

CallVector4Sub ==
  \E i, j \in ObjsOf("Vector4") :
    Call("Vector4.sub", <<objs[i], objs[j]>>, Vector4_sub(heap, objs[i], objs[j]))

CallVector4Neg ==
  \E i \in ObjsOf("Vector4") :
    Call("Vector4.neg", <<objs[i]>>, Vector4_neg(heap, objs[i]))

CallVector4Mul ==
  \E i \in ObjsOf("Vector4"), n \in NumIn :
    Call("Vector4.mul", <<objs[i], NumV(n)>>, Vector4_mul(heap, objs[i], NumV(n)))

CallVector4Div ==
  \E i \in ObjsOf("Vector4"), n \in NumIn :
    Call("Vector4.div", <<objs[i], NumV(n)>>, Vector4_div(heap, objs[i], NumV(n)))

CallQuaternionMul ==
  \E i, j \in ObjsOf("Quaternion") :
    Call("Quaternion.mul", <<objs[i], objs[j]>>, Quaternion_mul(heap, objs[i], objs[j]))

CallMatrix4Mul ==
  \E i \in ObjsOf("Matrix4") :
    \E x \in {objs[j] : j \in ObjsOf("Matrix4") \cup ObjsOf("Vector4")}
               \cup {NumV(n) : n \in NumIn} :
      Call("Matrix4.mul", <<objs[i], x>>, Matrix4_mul(heap, objs[i], x))

CallAdd == \E a, b \in Operands : Call("add", <<a, b>>, add(heap, a, b))

CallSub == \E a, b \in Operands : Call("sub", <<a, b>>, sub(heap, a, b))

CallNeg == \E a \in Operands : Call("neg", <<a>>, neg(heap, a))

CallMul == \E a, b \in Operands : Call("mul", <<a, b>>, mul(heap, a, b))

CallDiv == \E a, b \in Operands : Call("div", <<a, b>>, div(heap, a, b))

Next ==
  \/ NewVector3 \/ NewVector4 \/ NewQuaternion \/ NewMatrix4 \/ get_world_transform
  \/ CallVector3Add \/ CallVector3Sub \/ CallVector3Neg \/ CallVector3Mul \/ CallVector3Div
  \/ CallVector4Add \/ CallVector4Sub \/ CallVector4Neg \/ CallVector4Mul \/ CallVector4Div
  \/ CallQuaternionMul \/ CallMatrix4Mul
  \/ CallAdd \/ CallSub \/ CallNeg \/ CallMul \/ CallDiv
  \/ CallError

Spec == Init /\ [][Next]_vars

(* Scripts that construct objects and assign to their fields. *)

SetIn == {Num(5)}

WithX == ObjsOf("Vector3") \cup ObjsOf("Vector4") \cup ObjsOf("Quaternion")

WithW == ObjsOf("Vector4") \cup ObjsOf("Quaternion")

SetX ==
  \E i \in WithX, n \in SetIn :
    Assign("set x", <<i, NumV(n)>>, set_x(heap, objs[i], NumV(n)))

SetY ==
  \E i \in WithX, n \in SetIn :
    Assign("set y", <<i, NumV(n)>>, set_y(heap, objs[i], NumV(n)))

SetZ ==
  \E i \in WithX, n \in SetIn :
    Assign("set z", <<i, NumV(n)>>, set_z(heap, objs[i], NumV(n)))

SetW ==
  \E i \in WithW, n \in SetIn :
    Assign("set w", <<i, NumV(n)>>, set_w(heap, objs[i], NumV(n)))

(* m.c<c> = v *)
SetColumn ==
  \E i \in ObjsOf("Matrix4"), c \in 0..3, j \in ObjsOf("Vector4") :
    Assign("set c", <<i, c, j>>, Matrix4_set_c(heap, objs[i], c, objs[j]))

(* Scripts that compose rotations with integer components. *)

QAlg ==
  { <<Num(1), Num(0), Num(0), Num(0)>>, <<Num(0), Num(1), Num(0), Num(0)>>,
    <<Num(1), Num(-1), Num(2), Num(3)>>, <<Num(0), Num(2), Num(-1), Num(1)>>,
    <<Num(2), Num(0), Num(1), Num(-1)>> }

QAlgArgs == {<<NumV(t[1]), NumV(t[2]), NumV(t[3]), NumV(t[4])>> : t \in QAlg}

NewRotation ==
  \E a \in QAlgArgs :
    Construct("new Quaternion", a, Quaternion_constructor(heap, a[1], a[2], a[3], a[4]))

NextRotations == NewRotation \/ CallQuaternionMul

SpecRotations == Init /\ [][NextRotations]_vars

NextSetters ==
  \/ NewVector3 \/ NewVector4 \/ NewQuaternion \/ NewMatrix4 \/ get_world_transform
  \/ SetX \/ SetY \/ SetZ \/ SetW \/ SetColumn

SpecSetters == Init /\ [][NextSetters]_vars

----------------------------------------------------------------------------
(* What the exported functions hand to the host.  A call is the name of   *)
(* the primitive and the arguments it receives, in order; an assignment   *)
(* to a field of host data is the field and the value stored.             *)

HostCall(fn, argv) == [fn |-> fn, argv |-> argv, kind |-> "call"]

HostAssign(field, v) == [fn |-> field, argv |-> <<v>>, kind |-> "assign"]

Results(n) == NumV(Num(n))

(* constructor(x, y, z) of Vector3 *)
Vector3_constructor_calls(x, y, z) ==
  IF x.t = "undef" \/ x.t = "num" \/ InstanceOf(x, "Vector3")
  THEN <<HostCall("vmath.vector3", <<Results(1), x, y, z>>)>>
  ELSE <<>>

(* constructor(x, y, z, w) of Matrix4 *)
Matrix4_constructor_calls(x, y, z, w) ==
  IF InstanceOf(x, "Matrix4")
  THEN <<HostCall("vmath.matrix4", <<Results(1), x>>)>>
  ELSE IF InstanceOf(x, "Vector4")
  THEN <<HostCall("vmath.matrix4", <<Results(1)>>),
         HostAssign("c0", x), HostAssign("c1", y), HostAssign("c2", z), HostAssign("c3", w)>>
  ELSE <<>>

Matrix4_look_at_calls(eye, look_at, up) ==
  <<HostCall("vmath.matrix4_look_at", <<Results(1), eye, look_at, up>>)>>

Vector3_cross_calls(v1, v2) ==
  <<HostCall("vmath.cross", <<Results(1), v1.data, v2.data>>)>>

go_set_calls(id, property, value) ==
  <<HostCall("go.set", <<Results(0), id, property, value>>)>>

go_property_calls(name, value) ==
  IF \/ InstanceOf(value, "ResourcePropertyBase") \/ InstanceOf(value, "Vector3")
     \/ InstanceOf(value, "Vector4") \/ InstanceOf(value, "Quaternion")
  THEN <<HostCall("go.property", <<Results(0), name, value.data>>)>>
  ELSE <<HostCall("go.property", <<Results(0), name, value>>)>>

go_set_position_calls(position, id) ==
  <<HostCall("go.set_position", <<Results(0), position.data, id>>)>>

copy_buffer_calls(dst, dstoffset, src, srcoffset, count) ==
  <<HostCall("buffer.copy_buffer", <<dst.data, dstoffset, src.data, srcoffset, count>>)>>

copy_stream_calls(dst, dstoffset, src, srcoffset, count) ==
  <<HostCall("buffer.copy_stream", <<dst, dstoffset, src, srcoffset, count>>)>>

get_buffer_calls(path) == <<HostCall("resource.get_buffer", <<Results(1), path>>)>>

load_calls(path) == <<HostCall("resource.load", <<Results(1), path>>)>>

set_calls(path, buffer) == <<HostCall("resource.set", <<Results(0), path, buffer.data>>)>>

set_buffer_calls(path, buffer) ==
  <<HostCall("resource.set_buffer", <<Results(0), path, buffer.data>>)>>

post_calls(receiver, message_id, message) ==
  IF message.t = "undef"
  THEN <<HostCall("msg.post", <<Results(0), receiver, message_id>>)>>
  ELSE <<HostCall("msg.post", <<Results(0), receiver, message_id, message>>)>>

(* A script with a few objects at hand calls the exported functions; each *)
(* step records what the function handed to the host.                     *)

Invoke(op, args, returns, calls) ==
  /\ last' = [op |-> op, args |-> args, out |-> Undef, kept |-> FALSE,
              pre |-> heap, post |-> heap, returns |-> returns, calls |-> calls]
  /\ UNCHANGED <<objs, heap, host, dflt, sets, self, go>>

InitHost ==
  /\ heap = << [k |-> "vector3", c |-> <<Num(1), Num(-2), Num(3)>>],
               [k |-> "vector3", c |-> <<Num(0), Num(0), Num(1)>>],
               [k |-> "vector4", c |-> <<Num(1), Num(2), Num(3), Num(4)>>],
               [k |-> "quat", c |-> IdentityQuat],
               [k |-> "matrix4", c |-> IdentityCols],
               [k |-> "buffer", c |-> <<>>],
               [k |-> "buffer", c |-> <<>>],
               [k |-> "resource", c |-> <<>>],
               [k |-> "stream", c |-> <<>>] >>
  /\ objs = << Obj("Vector3", DataV(1)), Obj("Vector3", DataV(2)), Obj("Vector4", DataV(3)),
               Obj("Quaternion", DataV(4)), Obj("Matrix4", DataV(5)),
               Obj("Buffer", DataV(6)), Obj("Buffer", DataV(7)),
               Obj("ResourcePropertyBase", DataV(8)) >>
  /\ last = [op |-> "none", args |-> <<>>, out |-> Undef, kept |-> TRUE,
             pre |-> <<>>, post |-> <<>>]
  /\ host \in HostModes
  /\ dflt = {}
  /\ sets = 0
  /\ self = NoSelf
  /\ go = NoGo

Wrappers(cls) == {objs[i] : i \in ObjsOf(cls)}

StreamIn == {DataV(r) : r \in {r \in 1..Len(heap) : heap[r].k = "stream"}}

IdIn == {StrV(<<"ship">>), Undef}

PathIn == {StrV(<<"/ship.texturec">>)}

PropertyIn == {StrV(<<"speed">>)}

OffsetIn == {NumV(Num(0)), NumV(Num(1))}

MessageIn == {Undef, [t |-> "table"]}

PropertyValues ==
  Wrappers("Vector3") \cup Wrappers("Vector4") \cup Wrappers("Quaternion")
    \cup Wrappers("ResourcePropertyBase") \cup {NumV(Num(2))}

DoNewVector3 ==
  \E a \in Vector3Args :
    Invoke("new Vector3", a, TRUE, Vector3_constructor_calls(a[1], a[2], a[3]))

DoNewMatrix4 ==
  \E a \in Matrix4Args :
    Invoke("new Matrix4", a, TRUE, Matrix4_constructor_calls(a[1], a[2], a[3], a[4]))

DoLookAt ==
  \E eye, look_at, up \in Wrappers("Vector3") :
    Invoke("Matrix4.look_at", <<eye, look_at, up>>, TRUE,
           Matrix4_look_at_calls(eye, look_at, up))

DoCross ==
  \E v1, v2 \in Wrappers("Vector3") :
    Invoke("Vector3.cross", <<v1, v2>>, TRUE, Vector3_cross_calls(v1, v2))

DoGoSet ==
  \E id \in IdIn, property \in PropertyIn, value \in PropertyValues :
    Invoke("go.set", <<id, property, value>>, FALSE, go_set_calls(id, property, value))

DoGoProperty ==
  \E name \in PropertyIn, value \in PropertyValues :
    Invoke("go.property", <<name, value>>, FALSE, go_property_calls(name, value))

DoGoSetPosition ==
  \E position \in Wrappers("Vector3"), id \in IdIn :
    Invoke("go.set_position", <<position, id>>, FALSE, go_set_position_calls(position, id))

DoCopyBuffer ==
  \E dst, src \in Wrappers("Buffer"), dstoffset, srcoffset, count \in OffsetIn :
    Invoke("buffer.copy_buffer", <<dst, dstoffset, src, srcoffset, count>>, FALSE,
           copy_buffer_calls(dst, dstoffset, src, srcoffset, count))

DoCopyStream ==
  \E dst, src \in StreamIn, dstoffset, srcoffset, count \in OffsetIn :
    Invoke("buffer.copy_stream", <<dst, dstoffset, src, srcoffset, count>>, FALSE,
           copy_stream_calls(dst, dstoffset, src, srcoffset, count))

DoGetBuffer ==
  \E path \in PathIn : Invoke("resource.get_buffer", <<path>>, TRUE, get_buffer_calls(path))

DoLoad ==
  \E path \in PathIn : Invoke("resource.load", <<path>>, TRUE, load_calls(path))

DoSet ==
  \E path \in PathIn, buffer \in Wrappers("Buffer") :
    Invoke("resource.set", <<path, buffer>>, FALSE, set_calls(path, buffer))

DoSetBuffer ==
  \E path \in PathIn, buffer \in Wrappers("Buffer") :
    Invoke("resource.set_buffer", <<path, buffer>>, FALSE, set_buffer_calls(path, buffer))

DoPost ==
  \E receiver \in IdIn \ {Undef}, message_id \in PropertyIn, message \in MessageIn :
    Invoke("msg.post", <<receiver, message_id, message>>, FALSE,
           post_calls(receiver, message_id, message))

NextHost ==
  \/ DoNewVector3 \/ DoNewMatrix4 \/ DoLookAt \/ DoCross
  \/ DoGoSet \/ DoGoProperty \/ DoGoSetPosition
  \/ DoCopyBuffer \/ DoCopyStream
  \/ DoGetBuffer \/ DoLoad \/ DoSet \/ DoSetBuffer \/ DoPost

SpecHost == InitHost /\ [][NextHost]_vars

----------------------------------------------------------------------------
(* Hashes.  The host hashes a string to a number; what it does with a     *)
(* value that is a hash already is host.hash: hand it back, or hash it    *)
(* again.                                                                 *)

HashV(v) == [t |-> "hash", v |-> v]

BoolV(b) == [t |-> "bool", b |-> b]

(* The host's hash of a string; different strings of the scripts have     *)
(* different hashes.                                                      *)
lua_hash_string(s) ==
  CASE s = <<"up">> -> 51966
    [] s = <<"down">> -> 4660
    [] s = <<"left">> -> 43981
    [] s = <<"right">> -> 291
    [] s = <<"click">> -> 61453
    [] OTHER -> 48879

lua_hash(s) ==
  IF s.t = "hash"
  THEN IF host.hash = "same" THEN s ELSE HashV((s.v * 31 + 7) % 65536)
  ELSE HashV(lua_hash_string(s.s))

HexChars == <<"0", "1", "2", "3", "4", "5", "6", "7", "8", "9", "a", "b", "c", "d", "e", "f">>

RECURSIVE Hex(_, _)
(* The last k hexadecimal digits of n, padded with leading zeros. *)
Hex(n, k) == IF k = 0 THEN <<>> ELSE Append(Hex(n \div 16, k - 1), HexChars[(n % 16) + 1])

lua_hash_to_hex(h) == StrV(Hex(h.v, 4))

hash(s) == lua_hash(s)

hash_to_hex(h) == lua_hash_to_hex(h)

(* hasheq that compares its arguments as they are. *)
hasheq_unhashed(h1, h2) == BoolV(h1 = h2)

hasheq(h1, h2) == BoolV(hash_to_hex(hash(h1)) = hash_to_hex(hash(h2)))

(* Hosts of a script that uses hashes: such a script depends on nothing  *)
(* else the host decides.                                                *)
HashHostModes == [hash : {"same", "again"}]

InitHash ==
  /\ objs = <<>>
  /\ heap = <<>>
  /\ last = [op |-> "none", args |-> <<>>, out |-> Undef, kept |-> TRUE,
             pre |-> <<>>, post |-> <<>>]
  /\ host \in HashHostModes
  /\ dflt = {}
  /\ sets = 0
  /\ self = NoSelf
  /\ go = NoGo

ActionIn == {StrV(<<"up">>), StrV(<<"down">>), StrV(<<"left">>), StrV(<<"right">>),
             StrV(<<"click">>), StrV(<<"jump">>)}

HashIn == ActionIn \cup {hash(s) : s \in ActionIn} \cup {hash(hash(s)) : s \in ActionIn}

CallHasheq ==
  \E h1, h2 \in HashIn :
    /\ last' = [op |-> "hasheq", args |-> <<h1, h2>>, out |-> hasheq(h1, h2),
                kept |-> FALSE, pre |-> heap, post |-> heap]
    /\ UNCHANGED <<objs, heap, host, dflt, sets, self, go>>

CallHash ==
  \E s \in HashIn :
    /\ last' = [op |-> "hash", args |-> <<s>>, out |-> hash(s),
                kept |-> FALSE, pre |-> heap, post |-> heap]
    /\ UNCHANGED <<objs, heap, host, dflt, sets, self, go>>

CallHashToHex ==
  \E s \in ActionIn :
    /\ last' = [op |-> "hash_to_hex", args |-> <<hash(s)>>, out |-> hash_to_hex(hash(s)),
                kept |-> FALSE, pre |-> heap, post |-> heap]
    /\ UNCHANGED <<objs, heap, host, dflt, sets, self, go>>

NextHash == CallHasheq \/ CallHash \/ CallHashToHex

SpecHash == InitHash /\ [][NextHash]_vars

----------------------------------------------------------------------------
(* Movement tutorial: spaceship.ts.  self is the script instance, go the  *)
(* game object the host keeps for it; the backing data of self.velocity   *)
(* and self.input is in the heap.                                         *)

(* a > b *)
NumGt(a, b) == a[1] * b[2] > b[1] * a[2]

(* The largest k with k * k <= n. *)
ISqrt(n) == CHOOSE k \in 0..n : k * k <= n /\ (k + 1) * (k + 1) > n

(* 1 / sqrt(s), as the host rounds it: here to 8 binary digits. *)
InvSqrt(s) ==
  IF s = NaN THEN NaN
  ELSE IF s[1] = 0 THEN Inf
  ELSE IF s[2] = 0 THEN Num(0)
  ELSE Norm(ISqrt((65536 * s[2]) \div s[1]), 256)

(* lua.vmath.length_sqr(1, data) *)
vmath_length_sqr(h, d) ==
  LET c == h[d.ref].c
      Sq(i) == NumMul(c[i], c[i])
  IN IF Len(c) = 3 THEN NumAdd(NumAdd(Sq(1), Sq(2)), Sq(3))
     ELSE NumAdd(NumAdd(NumAdd(Sq(1), Sq(2)), Sq(3)), Sq(4))

(* lua.vmath.normalize(1, data) *)
vmath_normalize(h, d) ==
  LET c == h[d.ref].c
      f == InvSqrt(vmath_length_sqr(h, d))
  IN Alloc(h, [k |-> h[d.ref].k, c |-> [i \in DOMAIN c |-> NumMul(c[i], f)]])

Vector3_length_sqr(h, v) == vmath_length_sqr(h, v.data)

Vector3_normalize(h, v) ==
  Then(vmath_normalize(h, v.data),
       LAMBDA h1, d : Vector3_constructor(h1, d, Undef, Undef))

(* go.get_position(): new Vector3(lua.go.get_position(1, id)) *)
get_position(h, g) ==
  Then(Alloc(h, [k |-> "vector3", c |-> g.position]),
       LAMBDA h1, d : Vector3_constructor(h1, d, Undef, Undef))

(* go.set_position(position): lua.go.set_position(0, position.data, id) *)
set_position(h, g, position) == [g EXCEPT !.position = h[position.data.ref].c]

(* What a callback leaves: the script instance, the game object, the      *)
(* value returned and the lines printed.                                  *)
Left(s, g, ret, printed) ==
  [t |-> "state", self |-> s, go |-> g, ret |-> ret, printed |-> printed]

init(h, s, g) ==
  Then(Vector3_constructor(h, Undef, Undef, Undef), LAMBDA h1, v :
    Then(Vector3_constructor(h1, Undef, Undef, Undef), LAMBDA h2, i :
      Res(h2, Left([a |-> NumV(Num(114514)), velocity |-> v.data, input |-> i.data],
                   [g EXCEPT !.posted = @ \cup {<<".", "acquire_input_focus">>}],
                   Undef, <<>>))))

(* update that leaves self.input as it is. *)
update_keeping_input(h, s, g, dt) ==
  Then(Vector3_constructor(h, s.input, Undef, Undef), LAMBDA h1, input0 :
  Then(Vector3_constructor(h1, s.velocity, Undef, Undef), LAMBDA h2, velocity :
  Then(IF NumGt(Vector3_length_sqr(h2, input0), Num(1))
       THEN Vector3_normalize(h2, input0) ELSE Res(h2, input0), LAMBDA h3, input :
  Then(mul(h3, input, NumV(Num(200))), LAMBDA h4, acceleration :
  Then(mul(h4, acceleration, dt), LAMBDA h5, gain :
  Then(add(h5, velocity, gain), LAMBDA h6, v :
  Then(get_position(h6, g), LAMBDA h7, p :
  Then(add(h7, velocity, v), LAMBDA h8, sum :
  Then(mul(h8, sum, NumV(NumMul(dt.q, Norm(1, 2)))), LAMBDA h9, step :
  Then(add(h9, p, step), LAMBDA h10, position :
  Then(Vector3_constructor(h10, Undef, Undef, Undef), LAMBDA h11, fresh :
    Res(h11, Left([s EXCEPT !.velocity = v.data],
                  set_position(h11, g, position), Undef, <<>>)))))))))))))

(* update that moves by the new velocity alone. *)
update_by_new_velocity(h, s, g, dt) ==
  Then(Vector3_constructor(h, s.input, Undef, Undef), LAMBDA h1, input0 :
  Then(Vector3_constructor(h1, s.velocity, Undef, Undef), LAMBDA h2, velocity :
  Then(IF NumGt(Vector3_length_sqr(h2, input0), Num(1))
       THEN Vector3_normalize(h2, input0) ELSE Res(h2, input0), LAMBDA h3, input :
  Then(mul(h3, input, NumV(Num(200))), LAMBDA h4, acceleration :
  Then(mul(h4, acceleration, dt), LAMBDA h5, gain :
  Then(add(h5, velocity, gain), LAMBDA h6, v :
  Then(get_position(h6, g), LAMBDA h7, p :
  Then(add(h7, v, v), LAMBDA h8, sum :
  Then(mul(h8, sum, NumV(NumMul(dt.q, Norm(1, 2)))), LAMBDA h9, step :
  Then(add(h9, p, step), LAMBDA h10, position :
  Then(Vector3_constructor(h10, Undef, Undef, Undef), LAMBDA h11, fresh :
    Res(h11, Left([s EXCEPT !.velocity = v.data, !.input = fresh.data],
                  set_position(h11, g, position), Undef, <<>>)))))))))))))

update(h, s, g, dt) ==
  Then(Vector3_constructor(h, s.input, Undef, Undef), LAMBDA h1, input0 :
  Then(Vector3_constructor(h1, s.velocity, Undef, Undef), LAMBDA h2, velocity :
  Then(IF NumGt(Vector3_length_sqr(h2, input0), Num(1))
       THEN Vector3_normalize(h2, input0) ELSE Res(h2, input0), LAMBDA h3, input :
  Then(mul(h3, input, NumV(Num(200))), LAMBDA h4, acceleration :
  Then(mul(h4, acceleration, dt), LAMBDA h5, gain :
  Then(add(h5, velocity, gain), LAMBDA h6, v :
  Then(get_position(h6, g), LAMBDA h7, p :
  Then(add(h7, velocity, v), LAMBDA h8, sum :
  Then(mul(h8, sum, NumV(NumMul(dt.q, Norm(1, 2)))), LAMBDA h9, step :
  Then(add(h9, p, step), LAMBDA h10, position :
  Then(Vector3_constructor(h10, Undef, Undef, Undef), LAMBDA h11, fresh :
    Res(h11, Left([s EXCEPT !.velocity = v.data, !.input = fresh.data],
                  set_position(h11, g, position), Undef, <<>>)))))))))))))

(* on_input that adds to the component instead of storing it. *)
on_input_adding(h, s, g, action_id, action) ==
  LET Store(i, n) == Res([h EXCEPT ![s.input.ref].c[i] = NumAdd(@, n)], Left(s, g, Undef, <<>>))
  IN IF action_id.t = "undef" THEN Res(h, Left(s, g, BoolV(FALSE), <<>>))
     ELSE IF hasheq(action_id, StrV(<<"up">>)).b THEN Store(2, Num(1))
     ELSE IF hasheq(action_id, StrV(<<"down">>)).b THEN Store(2, Num(-1))
     ELSE IF hasheq(action_id, StrV(<<"left">>)).b THEN Store(1, Num(-1))
     ELSE IF hasheq(action_id, StrV(<<"right">>)).b THEN Store(1, Num(1))
     ELSE IF hasheq(action_id, StrV(<<"click">>)).b /\ action.pressed
     THEN Res(h, Left(s, g, Undef, <<"CLICK!">>))
     ELSE Res(h, Left(s, g, Undef, <<>>))

on_input(h, s, g, action_id, action) ==
  LET Store(i, n) == Res([h EXCEPT ![s.input.ref].c[i] = n], Left(s, g, Undef, <<>>))
  IN IF action_id.t = "undef" THEN Res(h, Left(s, g, BoolV(FALSE), <<>>))
     ELSE IF hasheq(action_id, StrV(<<"up">>)).b THEN Store(2, Num(1))
     ELSE IF hasheq(action_id, StrV(<<"down">>)).b THEN Store(2, Num(-1))
     ELSE IF hasheq(action_id, StrV(<<"left">>)).b THEN Store(1, Num(-1))
     ELSE IF hasheq(action_id, StrV(<<"right">>)).b THEN Store(1, Num(1))
     ELSE IF hasheq(action_id, StrV(<<"click">>)).b /\ action.pressed
     THEN Res(h, Left(s, g, Undef, <<"CLICK!">>))
     ELSE Res(h, Left(s, g, Undef, <<>>))

(* The data a script instance still refers to after a callback; the rest *)
(* of the heap is unreachable and is dropped.                            *)
Reachable(h, s) ==
  IF s.velocity = s.input THEN <<h[s.velocity.ref]>>
  ELSE <<h[s.velocity.ref], h[s.input.ref]>>

Relocated(s) ==
  [s EXCEPT !.velocity = DataV(1),
            !.input = IF s.velocity = s.input THEN DataV(1) ELSE DataV(2)]

(* The engine runs a callback of the script. *)
Run(op, args, r, frames) ==
  IF IsErr(r)
  THEN /\ last' = [op |-> op, args |-> args, out |-> r.out, printed |-> <<>>, kept |-> FALSE,
                   pre |-> heap, post |-> heap, was |-> [self |-> self, go |-> go]]
       /\ go' = [go EXCEPT !.frames = @ + frames]
       /\ UNCHANGED <<objs, heap, host, dflt, sets, self>>
  ELSE /\ heap' = Reachable(r.h, r.out.self)
       /\ self' = Relocated(r.out.self)
       /\ go' = [r.out.go EXCEPT !.frames = @ + frames]
       /\ last' = [op |-> op, args |-> args, out |-> r.out.ret, printed |-> r.out.printed,
                   kept |-> FALSE, pre |-> heap, post |-> Reachable(r.h, r.out.self),
                   was |-> [self |-> self, go |-> go]]
       /\ UNCHANGED <<objs, host, dflt, sets>>

StartIn == { <<Num(10), Num(-20), Num(0)>> }

InitShip ==
  /\ objs = <<>>
  /\ heap = <<>>
  /\ last = [op |-> "none", args |-> <<>>, out |-> Undef, kept |-> TRUE,
             pre |-> <<>>, post |-> <<>>]
  /\ host \in HashHostModes
  /\ dflt = {}
  /\ sets = 0
  /\ self = NoSelf
  /\ go \in {[NoGo EXCEPT !.position = p] : p \in StartIn}

DtIn == {Norm(1, 2)}

ActionIds == {Undef} \cup {hash(s) : s \in ActionIn}

ShipInit ==
  /\ self = NoSelf
  /\ Run("init", <<>>, init(heap, self, go), 0)

ShipUpdate ==
  \E dt \in DtIn :
    /\ self # NoSelf
    /\ go.frames < MaxFrames
    /\ Run("update", <<NumV(dt)>>, update(heap, self, go, NumV(dt)), 1)

ShipOnInput ==
  \E action_id \in ActionIds, pressed \in BOOLEAN :
    /\ self # NoSelf
    /\ Run("on_input", <<action_id, [pressed |-> pressed]>>,
           on_input(heap, self, go, action_id, [pressed |-> pressed]), 0)

NextShip == ShipInit \/ ShipUpdate \/ ShipOnInput

SpecShip == InitShip /\ [][NextShip]_vars

TypeOK ==
  /\ Len(objs) <= MaxObjs
  /\ \A i \in 1..Len(objs) : objs[i].t = "obj"

----------------------------------------------------------------------------
(* Properties. *)

Kind(v) == IF v.t = "obj" THEN v.cls ELSE IF v.t = "num" THEN "number" ELSE "other"

Vectors == {"Vector3", "Vector4"}

Dispatched == {"add", "sub", "neg", "mul", "div"}

Typed == {"Vector3.add", "Vector3.sub", "Vector3.neg", "Vector3.mul", "Vector3.div",
          "Vector4.add", "Vector4.sub", "Vector4.neg", "Vector4.mul", "Vector4.div",
          "Quaternion.mul", "Matrix4.mul"}

Returned == last.out.t # "err"

Raised(type) == last.out.t = "err" /\ last.out.type = type

Arg(i) == last.args[i]

ArgKind(i) == Kind(last.args[i])

(* The components an object has in heap h. *)
Comps(h, o) == h[o.data.ref].c

HasData(o) == o.t = "obj" /\ o.data.t = "data"

(* o is an object the script made with the no-argument constructor. *)
IsDefault(o) == \E i \in dflt : objs[i] = o

(* C1: add and sub of a Vector3 with a Vector4 (either order), and div of *)
(* a vector by something that is not a number, raise a TypeError.         *)
C1_MismatchRaises ==
  /\ (last.op \in {"add", "sub"} /\ {ArgKind(1), ArgKind(2)} = Vectors)
       => Raised("TypeError")
  /\ (last.op = "div" /\ ArgKind(1) \in Vectors /\ ArgKind(2) # "number")
       => Raised("TypeError")

C1_Witness ==
  /\ last.op = "add" /\ ArgKind(1) = "Vector3" /\ ArgKind(2) = "Vector4"
  /\ Raised("TypeError")

Verbs(op) ==
  CASE op = "add" -> {"add"}
    [] op = "sub" -> {"sub", "subtract"}
    [] op = "neg" -> {"neg", "negate"}
    [] op = "mul" -> {"mul", "multiply"}
    [] op = "div" -> {"div", "divide"}

Words(msg) == {msg[i] : i \in DOMAIN msg}

(* The operand kinds for which the operation is defined. *)
Defined(op, ks) ==
  CASE op \in {"add", "sub"} -> ks[1] \in Vectors /\ ks[2] = ks[1]
    [] op = "neg" -> ks[1] \in Vectors
    [] op = "div" -> ks[1] \in Vectors /\ ks[2] = "number"
    [] op = "mul" -> ks \in { <<"Vector3", "number">>, <<"number", "Vector3">>,
                              <<"Vector4", "number">>, <<"number", "Vector4">>,
                              <<"Vector4", "Matrix4">>, <<"Matrix4", "Vector4">>,
                              <<"Matrix4", "Matrix4">>, <<"Matrix4", "number">>,
                              <<"number", "Matrix4">>, <<"Quaternion", "Quaternion">> }

ArgKinds == [i \in DOMAIN last.args |-> Kind(last.args[i])]

(* C2: the error of a dispatched call on operands with no defined         *)
(* operation names the operation and the type of one of the operands.     *)
C2_ErrorNamesOperationAndType ==
  (last.op \in Dispatched /\ ~Defined(last.op, ArgKinds))
    => /\ Raised("TypeError")
       /\ Words(last.out.msg) \cap Verbs(last.op) # {}
       /\ Words(last.out.msg) \cap {ArgKinds[i] : i \in DOMAIN ArgKinds} # {}

(* C3: the dispatched mul returns a result exactly for the ten operand    *)
(* pairs that have a typed implementation, and raises a TypeError for     *)
(* every other pair.                                                      *)
C3_MulReturnsExactlyForDefinedPairs ==
  last.op = "mul"
    => /\ Returned <=> Defined("mul", ArgKinds)
       /\ ~Returned => Raised("TypeError")

(* C4: add, sub, neg and div return exactly for vector operands (and a    *)
(* number divisor), raise a TypeError otherwise, and the result has the   *)
(* vector type of the first operand.                                      *)
C4_VectorOnly ==
  last.op \in {"add", "sub", "neg", "div"}
    => /\ Returned <=> Defined(last.op, ArgKinds)
       /\ ~Returned => Raised("TypeError")
       /\ Returned => Kind(last.out) = ArgKind(1)

C4_Witness ==
  /\ last.op = "div" /\ ArgKind(1) = "Vector4" /\ ArgKind(2) = "number"
  /\ Returned /\ Kind(last.out) = "Vector4"

(* C5: Matrix4.mul(new Matrix4(), v) returns a Vector4 with the           *)
(* components of v.                                                       *)
C5_DefaultMatrixTimesVector ==
  (last.op = "Matrix4.mul" /\ IsDefault(Arg(1)) /\ ArgKind(2) = "Vector4")
    => /\ Returned
       /\ Kind(last.out) = "Vector4"
       /\ Comps(last.post, last.out) = Comps(last.pre, Arg(2))

(* C6: Matrix4.mul(m, new Matrix4()) returns a matrix with the columns    *)
(* of m.                                                                  *)
C6_MatrixTimesDefaultMatrix ==
  (last.op = "Matrix4.mul" /\ HasData(Arg(1)) /\ ArgKind(2) = "Matrix4" /\ IsDefault(Arg(2)))
    => /\ Returned
       /\ Kind(last.out) = "Matrix4"
       /\ Comps(last.post, last.out) = Comps(last.pre, Arg(1))

IsQuaternionMul ==
  /\ last.op \in {"Quaternion.mul", "mul"}
  /\ ArgKind(1) = "Quaternion" /\ ArgKind(2) = "Quaternion"

AllFinite(cs) == \A i \in DOMAIN cs : IsFinite(cs[i])

(* C7 as stated: composing any quaternion q with new Quaternion(), on     *)
(* either side, gives exactly the components of q.                        *)
C7_DefaultQuaternionIsIdentity ==
  /\ (IsQuaternionMul /\ IsDefault(Arg(2)))
       => Returned /\ Comps(last.post, last.out) = Comps(last.pre, Arg(1))
  /\ (IsQuaternionMul /\ IsDefault(Arg(1)))
       => Returned /\ Comps(last.post, last.out) = Comps(last.pre, Arg(2))

(* C7 amended: composing a quaternion q whose components are all finite   *)
(* with new Quaternion(), on either side, gives exactly the components of *)
(* q.                                                                     *)
C7_DefaultQuaternionIsIdentityOnFinite ==
  /\ (IsQuaternionMul /\ IsDefault(Arg(2)) /\ AllFinite(Comps(last.pre, Arg(1))))
       => Returned /\ Comps(last.post, last.out) = Comps(last.pre, Arg(1))
  /\ (IsQuaternionMul /\ IsDefault(Arg(1)) /\ AllFinite(Comps(last.pre, Arg(2))))
       => Returned /\ Comps(last.post, last.out) = Comps(last.pre, Arg(2))

C7_Witness ==
  /\ last.op = "mul" /\ IsQuaternionMul /\ IsDefault(Arg(2)) /\ ~IsDefault(Arg(1))
  /\ AllFinite(Comps(last.pre, Arg(1)))
  /\ Returned /\ Comps(last.post, last.out) = Comps(last.pre, Arg(1))

(* The Hamilton product of the component tuples p and q. *)
Hamilton(p, q) ==
  LET x1 == p[1]  y1 == p[2]  z1 == p[3]  w1 == p[4]
      x2 == q[1]  y2 == q[2]  z2 == q[3]  w2 == q[4]
      S(a, b, c, d) == NumAdd(NumAdd(NumAdd(a, b), c), NumNeg(d))
  IN << S(NumMul(w1, x2), NumMul(x1, w2), NumMul(y1, z2), NumMul(z1, y2)),
        S(NumMul(w1, y2), NumMul(y1, w2), NumMul(z1, x2), NumMul(x1, z2)),
        S(NumMul(w1, z2), NumMul(z1, w2), NumMul(x1, y2), NumMul(y1, x2)),
        NumAdd(NumAdd(NumAdd(NumMul(w1, w2), NumNeg(NumMul(x1, x2))),
                      NumNeg(NumMul(y1, y2))), NumNeg(NumMul(z1, z2))) >>

(* C8: Quaternion.mul, and the dispatched mul on two Quaternions, return  *)
(* the Hamilton product of the operands.                                  *)
C8_QuaternionMulIsHamilton ==
  IsQuaternionMul
    => /\ Returned
       /\ Kind(last.out) = "Quaternion"
       /\ Comps(last.post, last.out) = Hamilton(Comps(last.pre, Arg(1)), Comps(last.pre, Arg(2)))

C8_Witness ==
  /\ last.op = "Quaternion.mul" /\ ~IsDefault(Arg(1)) /\ ~IsDefault(Arg(2))
  /\ AllFinite(Comps(last.pre, Arg(1))) /\ AllFinite(Comps(last.pre, Arg(2)))
  /\ Returned /\ Comps(last.post, last.out) # Comps(last.pre, Arg(1))

(* C9: new Vector3(v.data) reads back the x, y and z of v. *)
C9_RoundTripThroughData ==
  (last.op = "new Vector3" /\ Arg(1).t = "data")
    => /\ Returned
       /\ get_x(last.post, last.out) = last.pre[Arg(1).ref].c[1]
       /\ get_y(last.post, last.out) = last.pre[Arg(1).ref].c[2]
       /\ get_z(last.post, last.out) = last.pre[Arg(1).ref].c[3]

C9_Witness ==
  /\ last.op = "new Vector3" /\ Arg(1).t = "data" /\ Returned
  /\ last.pre[Arg(1).ref].c # Zero3
  /\ Comps(last.post, last.out) = last.pre[Arg(1).ref].c

(* The backing data of the operands of the last call. *)
OperandRefs ==
  {last.args[i].data.ref : i \in {j \in DOMAIN last.args : HasData(last.args[j])}}

(* C10: an arithmetic call, typed or dispatched, leaves the components of *)
(* its operands as they were, and its result is a new instance whose      *)
(* backing data is newly allocated, none of the operands' data.           *)
C10_ArithmeticDoesNotMutate ==
  last.op \in Typed \cup Dispatched
    => /\ \A r \in OperandRefs : last.post[r] = last.pre[r]
       /\ Returned
            => /\ HasData(last.out)
               /\ last.out.data.ref \notin OperandRefs
               /\ last.out.data.ref = Len(last.pre) + 1

C10_Witness ==
  /\ last.op = "mul" /\ ArgKind(1) = "Matrix4" /\ ArgKind(2) = "Vector4"
  /\ Returned /\ last.out.data.ref \notin OperandRefs
  /\ \A r \in OperandRefs : last.post[r] = last.pre[r]


----------------------------------------------------------------------------
(* Field assignments. *)

ComponentSetters == {"set x", "set y", "set z", "set w"}

Setters == ComponentSetters \cup {"set c"}

(* The position of the component a component setter assigns. *)
FieldIndex(op) ==
  CASE op = "set x" -> 1 [] op = "set y" -> 2 [] op = "set z" -> 3 [] op = "set w" -> 4

(* The instance an assignment acts on. *)
Target == objs[Arg(1)]

(* C11: an assignment through a setter of one instance changes no         *)
(* component read from another instance, the one its data came from       *)
(* included.                                                              *)
C11_SetterLeavesOtherInstances ==
  (last.op \in Setters /\ Returned)
    => \A j \in 1..Len(objs) :
         (j # Arg(1) /\ HasData(objs[j]))
           => Comps(last.post, objs[j]) = Comps(last.pre, objs[j])

(* C12: m.c<i> = v returns, makes column i of m the components of v,      *)
(* leaves the other columns of m alone and allocates nothing; x, y, z and *)
(* w assignments change exactly that component of the instance.           *)
C12_SettersMutateInPlace ==
  /\ last.op = "set c"
       => /\ Returned
          /\ Len(last.post) = Len(last.pre)
          /\ \A c \in 0..3 :
               Comps(last.post, Target)[c + 1] =
                 IF c = Arg(2) THEN Comps(last.pre, objs[Arg(3)])
                 ELSE Comps(last.pre, Target)[c + 1]
  /\ last.op \in ComponentSetters
       => /\ Returned
          /\ Len(last.post) = Len(last.pre)
          /\ \A f \in DOMAIN Comps(last.pre, Target) :
               Comps(last.post, Target)[f] =
                 IF f = FieldIndex(last.op) THEN Arg(2).q
                 ELSE Comps(last.pre, Target)[f]

----------------------------------------------------------------------------
(* Matrix products. *)

(* The components of the object a call returned. *)
ResComps(r) == r.h[r.out.data.ref].c

(* Matrix4.mul(m1, m2.c<i>) on the heap before the call. *)
TransformedColumn(i) ==
  Then(Matrix4_get_c(last.pre, Arg(2), i),
       LAMBDA g, c : Matrix4_mul_vector(g, Arg(1), c))

(* C13: Matrix4.mul(m1, m2) returns the matrix whose column i is          *)
(* Matrix4.mul(m1, m2.c<i>), in column order.                             *)
C13_MatrixProductByColumns ==
  (last.op = "Matrix4.mul" /\ ArgKind(2) = "Matrix4")
    => /\ Returned
       /\ Kind(last.out) = "Matrix4"
       /\ \A i \in 0..3 :
            /\ ~IsErr(TransformedColumn(i))
            /\ Comps(last.post, last.out)[i + 1] = ResComps(TransformedColumn(i))

(* x*c0 + y*c1 + z*c2 + w*c3 for the columns cs and the vector v. *)
LinearCombination(cs, v) ==
  [j \in 1..4 |->
     NumAdd(NumAdd(NumAdd(NumMul(v[1], cs[1][j]), NumMul(v[2], cs[2][j])),
                   NumMul(v[3], cs[3][j])), NumMul(v[4], cs[4][j]))]

(* C14: Matrix4.mul(m, v) returns x*m.c0 + y*m.c1 + z*m.c2 + w*m.c3,      *)
(* component by component.                                                *)
C14_MatrixTimesVectorIsColumnCombination ==
  (last.op = "Matrix4.mul" /\ ArgKind(2) = "Vector4")
    => /\ Returned
       /\ Kind(last.out) = "Vector4"
       /\ Comps(last.post, last.out) =
            LinearCombination(Comps(last.pre, Arg(1)), Comps(last.pre, Arg(2)))

(* C15: Matrix4.mul(m, n) returns the matrix whose every component is the *)
(* corresponding component of m times n.                                  *)
C15_MatrixTimesNumberIsElementwise ==
  (last.op = "Matrix4.mul" /\ ArgKind(2) = "number")
    => /\ Returned
       /\ Kind(last.out) = "Matrix4"
       /\ \A i, j \in 1..4 :
            Comps(last.post, last.out)[i][j] =
              NumMul(Comps(last.pre, Arg(1))[i][j], Arg(2).q)

----------------------------------------------------------------------------
(* Outcomes of calls: the error raised, or the class and components of    *)
(* the object returned.                                                   *)

Outcome(r) ==
  IF r.out.t = "obj" /\ r.out.data.t = "data"
  THEN [cls |-> r.out.cls, c |-> ResComps(r)]
  ELSE r.out

LastOutcome ==
  IF HasData(last.out)
  THEN [cls |-> last.out.cls, c |-> Comps(last.post, last.out)]
  ELSE last.out

DivOps == {"div", "Vector3.div", "Vector4.div"}

(* C17: div(v, n) of a vector and a number returns what mul(v, 1/n)       *)
(* returns, and returns for n = 0 as well.                                *)
C17_DivIsMulByReciprocal ==
  (last.op \in DivOps /\ ArgKind(1) \in Vectors /\ ArgKind(2) = "number")
    => /\ Returned
       /\ LastOutcome = Outcome(mul(last.pre, Arg(1), NumV(NumRecip(Arg(2).q))))

C17_Witness ==
  /\ last.op = "div" /\ ArgKind(1) = "Vector3" /\ Arg(2) = NumV(Num(0))
  /\ Returned
  /\ Comps(last.post, last.out) = <<Inf, NumNeg(Inf), Inf>>

----------------------------------------------------------------------------
(* Component-wise vector arithmetic. *)

AddOps == {"add", "Vector3.add", "Vector4.add"}

SubOps == {"sub", "Vector3.sub", "Vector4.sub"}

NegOps == {"neg", "Vector3.neg", "Vector4.neg"}

ScaleOps == {"mul", "Vector3.mul", "Vector4.mul"}

SameVectors == ArgKind(1) \in Vectors /\ ArgKind(2) = ArgKind(1)

(* The result is a vector of the class of the first operand whose         *)
(* component f is F(f).                                                   *)
Componentwise(F(_)) ==
  /\ Returned
  /\ Kind(last.out) = ArgKind(1)
  /\ DOMAIN Comps(last.post, last.out) = DOMAIN Comps(last.pre, Arg(1))
  /\ \A f \in DOMAIN Comps(last.pre, Arg(1)) : Comps(last.post, last.out)[f] = F(f)

A1(f) == Comps(last.pre, Arg(1))[f]

A2(f) == Comps(last.pre, Arg(2))[f]

C19_ErrorNeverReturns ==
  last.op = "error" => ~Returned

C19_Witness ==
  last.op = "error" /\ Raised("thrown")

----------------------------------------------------------------------------
(* C21: new Matrix4(a, b, c, d) returns a matrix whose columns c0..c3     *)
(* have the components of a, b, c and d.                                  *)
C21_FourColumnConstructorRoundTrips ==
  (last.op = "new Matrix4" /\ ArgKind(1) = "Vector4")
    => /\ Returned
       /\ HasData(last.out)
       /\ \A i \in 1..4 : Comps(last.post, last.out)[i] = Comps(last.pre, Arg(i))


----------------------------------------------------------------------------
(* Composition of rotations. *)

(* (a * b) * c and a * (b * c) for the operands a, b of the last call,    *)
(* its result a * b, and a third quaternion made from the arguments t.    *)
ThenWith(t) ==
  Then(Quaternion_constructor(last.post, t[1], t[2], t[3], t[4]),
       LAMBDA h1, c : Quaternion_mul(h1, last.out, c))

WithThen(t) ==
  Then(Quaternion_constructor(last.post, t[1], t[2], t[3], t[4]),
       LAMBDA h1, c : Then(Quaternion_mul(h1, Arg(2), c),
                           LAMBDA h2, bc : Quaternion_mul(h2, Arg(1), bc)))

(* C25: over integer components Quaternion.mul(Quaternion.mul(a, b), c)   *)
(* equals Quaternion.mul(a, Quaternion.mul(b, c)).                        *)
C25_QuaternionMulAssociates ==
  last.op = "Quaternion.mul"
    => /\ Returned
       /\ \A t \in QAlgArgs :
            /\ ~IsErr(ThenWith(t))
            /\ Outcome(ThenWith(t)) = Outcome(WithThen(t))

(* Quaternion.mul(a, b) differs from Quaternion.mul(b, a). *)
C25_Witness ==
  /\ last.op = "Quaternion.mul" /\ Returned
  /\ AllFinite(Comps(last.pre, Arg(1))) /\ AllFinite(Comps(last.pre, Arg(2)))
  /\ LastOutcome # Outcome(Quaternion_mul(last.pre, Arg(2), Arg(1)))
  /\ \E t \in QAlgArgs : Outcome(ThenWith(t)) # LastOutcome


----------------------------------------------------------------------------
(* Arguments handed to the host. *)

Invoked == "calls" \in DOMAIN last

(* The backing data of a wrapper; any other value as it is. *)
Unwrap(v) == IF v.t = "obj" THEN v.data ELSE v

(* C23: the host never receives a wrapper object: every argument of a     *)
(* host call and every value stored in host data is backing data or a     *)
(* plain value.                                                           *)
C23_HostReceivesBackingData ==
  Invoked
    => \A k \in DOMAIN last.calls :
         \A i \in DOMAIN last.calls[k].argv : last.calls[k].argv[i].t # "obj"

(* C24: every call into the host has the number of results wanted as its  *)
(* first argument, 1 when the function returns the host's result and 0    *)
(* when it returns nothing, followed by the function's own arguments in   *)
(* the order they are declared.                                           *)
C24_HostCallsLeadWithResultCount ==
  Invoked
    => \A k \in DOMAIN last.calls :
         LET c == last.calls[k] IN
           c.kind = "call"
             => /\ Len(c.argv) >= 1
                /\ c.argv[1] = Results(IF last.returns THEN 1 ELSE 0)
                /\ Len(c.argv) - 1 <= Len(last.args)
                /\ \A i \in 1..(Len(c.argv) - 1) :
                     Unwrap(c.argv[i + 1]) = Unwrap(last.args[i])


----------------------------------------------------------------------------
(* C22: hasheq(h1, h2) is true exactly when the hex strings of hash(h1)   *)
(* and hash(h2) are equal; it is reflexive and symmetric; and it is true  *)
(* of a string and its hash only on a host whose hash gives a hash back   *)
(* unchanged.                                                             *)
C22_HasheqComparesHexOfHashes ==
  last.op = "hasheq"
    => /\ last.out = BoolV(hash_to_hex(hash(Arg(1))) = hash_to_hex(hash(Arg(2))))
       /\ hasheq(Arg(1), Arg(1)) = BoolV(TRUE)
       /\ hasheq(Arg(2), Arg(1)) = last.out
       /\ (Arg(1).t = "str" /\ Arg(2) = hash(Arg(1)) /\ last.out = BoolV(TRUE))
            => hash(Arg(2)) = Arg(2)

C22_Witness ==
  /\ last.op = "hasheq" /\ Arg(1).t = "str" /\ Arg(2) = hash(Arg(1))
  /\ last.out = BoolV(TRUE)


----------------------------------------------------------------------------
(* Movement tutorial. *)

(* The components of self.input and self.velocity, now and before the     *)
(* last callback.                                                         *)
InputNow == heap[self.input.ref].c

VelocityNow == heap[self.velocity.ref].c

InputBefore == last.pre[last.was.self.input.ref].c

VelocityBefore == last.pre[last.was.self.velocity.ref].c

(* C26: after every update self.input is the zero vector. *)
C26_UpdateClearsInput ==
  last.op = "update" => (last.out = Undef /\ InputNow = Zero3)

C26_Witness ==
  /\ last.op = "update" /\ last.out = Undef
  /\ InputBefore[1] # Num(0) /\ InputBefore[2] # Num(0)
  /\ InputNow = Zero3

Steps == {Num(-1), Num(0), Num(1)}

Directions == {hash(StrV(<<d>>)) : d \in {"up", "down", "left", "right"}}

(* C27: once init has run, self.input.x and self.input.y are -1, 0 or 1   *)
(* and self.input.z is 0; on_input with an action id that is undefined or *)
(* not a direction changes neither self.input nor self.velocity, and      *)
(* returns false when the id is undefined.                                *)
C27_InputStaysOnGrid ==
  /\ self # NoSelf
       => (InputNow[1] \in Steps /\ InputNow[2] \in Steps /\ InputNow[3] = Num(0))
  /\ (last.op = "on_input" /\ Arg(1) \notin Directions)
       => /\ InputNow = InputBefore
          /\ VelocityNow = VelocityBefore
          /\ Arg(1) = Undef => last.out = BoolV(FALSE)

C27_Witness ==
  /\ last.op = "on_input" /\ Arg(1) = hash(StrV(<<"click">>)) /\ Arg(2).pressed
  /\ last.printed = <<"CLICK!">>
  /\ InputNow[1] # Num(0) /\ InputNow[2] # Num(0)
  /\ VelocityNow # Zero3

(* self.input, or its normalization when its squared length exceeds 1. *)
Heading(i) ==
  LET s == NumAdd(NumAdd(NumMul(i[1], i[1]), NumMul(i[2], i[2])), NumMul(i[3], i[3]))
  IN IF NumGt(s, Num(1)) THEN [k \in 1..3 |-> NumMul(i[k], InvSqrt(s))] ELSE i

(* C28: update(self, dt) makes self.velocity v = velocity + 200 * dt * i  *)
(* and the position position + (velocity + v) * dt * 0.5, for the         *)
(* velocity and position from before the call; with self.input zero the   *)
(* velocity is unchanged.                                                 *)
C28_UpdateIntegrates ==
  last.op = "update"
    => LET dt == Arg(1).q
           i == Heading(InputBefore)
       IN /\ last.out = Undef
          /\ \A k \in 1..3 :
               /\ VelocityNow[k] =
                    NumAdd(VelocityBefore[k], NumMul(NumMul(Num(200), dt), i[k]))
               /\ go.position[k] =
                    NumAdd(last.was.go.position[k],
                           NumMul(NumMul(NumAdd(VelocityBefore[k], VelocityNow[k]), dt),
                                  Norm(1, 2)))
          /\ InputBefore = Zero3 => VelocityNow = VelocityBefore

C28_Witness ==
  /\ last.op = "update" /\ last.out = Undef
  /\ VelocityBefore # Zero3
  /\ InputBefore[1] # Num(0) /\ InputBefore[2] # Num(0)
  /\ VelocityNow # VelocityBefore
  /\ go.position # last.was.go.position

====
